---- MODULE Spec2Model ----
(***************************************************************************)
(* Model of server.js: the POST /attendance handler (lookup, then insert   *)
(* or update, each a separate callback on the shared sqlite connection),   *)
(* the GET /admin range query and the GET /download-report export with its *)
(* temporary CSV file.                                                     *)
(*                                                                         *)
(* Text values are modelled by integer codes that keep their order: a date *)
(* 'YYYY-MM-DD' by DateBase + its day number, a time of day by TimeBase +  *)
(* its tick of the day, an employee name by a small number, the empty      *)
(* string by 0, and SQL NULL / JS undefined by NULL.                       *)
(***************************************************************************)
EXTENDS Integers, Sequences, FiniteSets, TLC

\* ---------------------------------------------------------------- bounds
MaxNow == 2         \* last instant of the clock
TicksPerDay == 2    \* instants per calendar day
NumNames == 2       \* non-empty employee names 1..NumNames
MaxCalls == 3       \* POST /attendance requests accepted in one run
MaxReports == 1     \* GET /admin and /download-report requests accepted in one run
MaxOverlap == 2     \* GET /download-report requests accepted in one run of SpecOverlap

\* ------------------------------------------------------------- constants
NULL == -1          \* SQL NULL, JS undefined
EmptyString == 0    \* the text ''
TimeBase == 10      \* codes of time-of-day texts start here
DateBase == 20      \* codes of date texts start here

Reqs == {1, 2}      \* request slots of POST /attendance in flight
Reports == {1, 2}   \* request slots of GET /admin and /download-report in flight

Names == 1..NumNames
BodyNames == {NULL, EmptyString} \cup Names
BodyActions == {"checkIn", "checkOut", "employeeName", "undefined"}
ValidActions == {"checkIn", "checkOut"}
Days == DateBase..(DateBase + (MaxNow \div TicksPerDay))
QueryDates == {NULL} \cup Days

VARIABLES now, table, req, calls, rep, reports, file

vars == <<now, table, req, calls, rep, reports, file>>

\* --------------------------------------------------------------- clock
\* moment().tz('Asia/Kolkata').format('YYYY-MM-DD')
FormatDate(n) == DateBase + (n \div TicksPerDay)

\* moment().tz('Asia/Kolkata').format('h:mm:ss A')
FormatTime(n) == TimeBase + (n % TicksPerDay)

\* ------------------------------------------------------------ the table
NoRow == [id |-> 0, employeeName |-> NULL, date |-> NULL,
          checkIn |-> NULL, checkOut |-> NULL]

\* JS truthiness of a column value: null and '' are falsy
Truthy(v) == v # NULL /\ v # EmptyString

\* the columns of CREATE TABLE attendance
Columns == {"id", "employeeName", "date", "checkIn", "checkOut"}

\* seeded fault: the two parameters of the lookup are bound the wrong way round
MatchingSwapped(t, name, date) ==
  {i \in 1..Len(t) : name # NULL /\ date # NULL
                     /\ t[i].employeeName = date /\ t[i].date = name}

\* SELECT * FROM attendance WHERE employeeName = ? AND date = ?  (db.get:
\* the first matching row of the rowid scan, or no row)
Matching(t, name, date) ==
  {i \in 1..Len(t) : name # NULL /\ date # NULL
                     /\ t[i].employeeName = name /\ t[i].date = date}

SqlGet(t, name, date) ==
  LET m == Matching(t, name, date)
  IN IF m = {} THEN NoRow
     ELSE t[CHOOSE i \in m : \A j \in m : i <= j]

\* INSERT INTO attendance (employeeName, date, <action>) VALUES (?, ?, ?)
\* fails on an unknown column, on a text bound to the integer key and on a
\* NULL employeeName; a column named twice takes its first value.
SqlInsertFails(name, date, action) ==
  \/ action \notin Columns
  \/ action = "id"
  \/ name = NULL
  \/ date = NULL

\* seeded fault: the insert writes the time to checkIn whatever the action
SqlInsertCheckInOnly(t, name, date, action, time) ==
  Append(t, [id |-> Len(t) + 1, employeeName |-> name, date |-> date,
             checkIn |-> time, checkOut |-> NULL])

SqlInsert(t, name, date, action, time) ==
  Append(t, [id |-> Len(t) + 1,
             employeeName |-> name,
             date |-> date,
             checkIn |-> IF action = "checkIn" THEN time ELSE NULL,
             checkOut |-> IF action = "checkOut" THEN time ELSE NULL])

\* UPDATE attendance SET <action> = ? WHERE id = ?
SqlUpdateFails(action) ==
  \/ action \notin Columns
  \/ action = "id"

\* seeded fault: the update has no WHERE clause
SqlUpdateNoWhere(t, id, action, time) ==
  [i \in 1..Len(t) |->
     CASE action = "checkIn" -> [t[i] EXCEPT !.checkIn = time]
       [] action = "checkOut" -> [t[i] EXCEPT !.checkOut = time]
       [] OTHER -> t[i]]

\* seeded fault: the update writes the time to checkIn whatever the action
SqlUpdateCheckInOnly(t, id, action, time) ==
  [i \in 1..Len(t) |->
     IF t[i].id = id THEN [t[i] EXCEPT !.checkIn = time] ELSE t[i]]

SqlUpdate(t, id, action, time) ==
  [i \in 1..Len(t) |->
     IF t[i].id = id
     THEN CASE action = "checkIn" -> [t[i] EXCEPT !.checkIn = time]
            [] action = "checkOut" -> [t[i] EXCEPT !.checkOut = time]
            [] action = "employeeName" -> [t[i] EXCEPT !.employeeName = time]
            [] action = "date" -> [t[i] EXCEPT !.date = time]
            [] OTHER -> t[i]
     ELSE t[i]]

\* ------------------------------------------------------ POST /attendance
NoRes == [status |-> 0, view |-> "none", message |-> "none"]
Success == [status |-> 200, view |-> "success", message |-> "none"]
Already(m) == [status |-> 200, view |-> "already", message |-> m]
Error500(m) == [status |-> 500, view |-> "text", message |-> m]

IdleReq == [pc |-> "idle", employeeName |-> NULL, action |-> "undefined",
            date |-> NULL, time |-> NULL, row |-> NoRow, res |-> NoRes]

\* seeded fault: the action's own field is tested before the combined test
DecideActionFirst(row, action) ==
  IF action = "checkIn" /\ Truthy(row.checkIn) THEN "in"
  ELSE IF action = "checkOut" /\ Truthy(row.checkOut) THEN "out"
  ELSE IF Truthy(row.checkIn) /\ Truthy(row.checkOut) THEN "both"
  ELSE "update"

\* the rejection branches of the lookup callback, in the order the code
\* tests them; "update" when none applies
Decide(row, action) ==
  IF Truthy(row.checkIn) /\ Truthy(row.checkOut) THEN "both"
  ELSE IF action = "checkIn" /\ Truthy(row.checkIn) THEN "in"
  ELSE IF action = "checkOut" /\ Truthy(row.checkOut) THEN "out"
  ELSE "update"

AlreadyMessage(d) ==
  CASE d = "both" -> "You have already checked in and out for today."
    [] d = "in" -> "You have already checked in for today."
    [] d = "out" -> "You have already checked out for today."

\* the handler body: read the request, read the clock twice, issue db.get
PostWith(r, names, actions) ==
  /\ req[r].pc \in {"idle", "done"}
  /\ calls < MaxCalls
  /\ \E name \in names, action \in actions,
        n2 \in {n \in {now, now + 1} : n <= MaxNow} :
       /\ req' = [req EXCEPT ![r] =
                    [IdleReq EXCEPT !.pc = "get",
                                    !.employeeName = name,
                                    !.action = action,
                                    !.date = FormatDate(now),
                                    !.time = FormatTime(n2)]]
       /\ now' = n2
  /\ calls' = calls + 1
  /\ UNCHANGED <<table, rep, reports, file>>

\* any request body
Post(r) == PostWith(r, BodyNames, BodyActions)

\* a request body as the form sends it: a name typed in, one of the two buttons
PostForm(r) == PostWith(r, Names, {"checkIn", "checkOut"})

\* seeded fault: the lookup error is logged and never answered
GetErrSwallowed(r) ==
  /\ req[r].pc = "get"
  /\ req' = [req EXCEPT ![r].pc = "done"]
  /\ UNCHANGED <<now, table, calls, rep, reports, file>>

\* a request body with any name and one of the two actions
PostValid(r) == PostWith(r, BodyNames, ValidActions)

\* db.get fails: the callback answers 500
GetErr(r) ==
  /\ req[r].pc = "get"
  /\ req' = [req EXCEPT ![r].pc = "done",
                        ![r].res = Error500("An error occurred while processing your request.")]
  /\ UNCHANGED <<now, table, calls, rep, reports, file>>

\* seeded fault: the rejection branches answer and then fall through to the update
GetOkFallsThrough(r) ==
  /\ req[r].pc = "get"
  /\ LET row == SqlGet(table, req[r].employeeName, req[r].date)
         d == Decide(row, req[r].action)
     IN /\ req' = [req EXCEPT
                     ![r].row = row,
                     ![r].pc = IF row = NoRow THEN "insert"
                               ELSE IF d = "update" THEN "update" ELSE "done",
                     ![r].res = IF row # NoRow /\ d # "update"
                                THEN Already(AlreadyMessage(d)) ELSE NoRes]
        /\ table' = IF row # NoRow /\ d # "update" /\ ~SqlUpdateFails(req[r].action)
                    THEN SqlUpdate(table, row.id, req[r].action, req[r].time)
                    ELSE table
  /\ UNCHANGED <<now, calls, rep, reports, file>>

\* db.get succeeds: the callback issues the insert or the update, or rejects
GetOk(r) ==
  /\ req[r].pc = "get"
  /\ LET row == SqlGet(table, req[r].employeeName, req[r].date)
         d == Decide(row, req[r].action)
     IN req' = [req EXCEPT
                  ![r].row = row,
                  ![r].pc = IF row = NoRow THEN "insert"
                            ELSE IF d = "update" THEN "update" ELSE "done",
                  ![r].res = IF row # NoRow /\ d # "update"
                             THEN Already(AlreadyMessage(d)) ELSE NoRes]
  /\ UNCHANGED <<now, table, calls, rep, reports, file>>

\* the insert fails (statement error or I/O): 500, nothing written
InsertErr(r) ==
  /\ req[r].pc = "insert"
  /\ req' = [req EXCEPT ![r].pc = "done",
                        ![r].res = Error500("An error occurred while saving attendance.")]
  /\ UNCHANGED <<now, table, calls, rep, reports, file>>

InsertOk(r) ==
  /\ req[r].pc = "insert"
  /\ ~SqlInsertFails(req[r].employeeName, req[r].date, req[r].action)
  /\ table' = SqlInsert(table, req[r].employeeName, req[r].date,
                        req[r].action, req[r].time)
  /\ req' = [req EXCEPT ![r].pc = "done", ![r].res = Success]
  /\ UNCHANGED <<now, calls, rep, reports, file>>

UpdateErr(r) ==
  /\ req[r].pc = "update"
  /\ req' = [req EXCEPT ![r].pc = "done",
                        ![r].res = Error500("An error occurred while updating attendance.")]
  /\ UNCHANGED <<now, table, calls, rep, reports, file>>

UpdateOk(r) ==
  /\ req[r].pc = "update"
  /\ ~SqlUpdateFails(req[r].action)
  /\ table' = SqlUpdate(table, req[r].row.id, req[r].action, req[r].time)
  /\ req' = [req EXCEPT ![r].pc = "done", ![r].res = Success]
  /\ UNCHANGED <<now, calls, rep, reports, file>>

\* the table a request leaves when it runs alone on table t and the store
\* accepts its statements: lookup, then insert, update or nothing
SoloRun(t, name, date, action, time) ==
  LET row == SqlGet(t, name, date)
  IN IF row = NoRow THEN SqlInsert(t, name, date, action, time)
     ELSE IF Decide(row, action) = "update" THEN SqlUpdate(t, row.id, action, time)
     ELSE t

\* the wall clock advances
Tick ==
  /\ now < MaxNow
  /\ now' = now + 1
  /\ UNCHANGED <<table, req, calls, rep, reports, file>>

\* ------------------------------------------------- the range query
\* date BETWEEN ? AND ?  (a NULL bound matches nothing)
Between(d, startDate, endDate) ==
  /\ d # NULL /\ startDate # NULL /\ endDate # NULL
  /\ startDate <= d /\ d <= endDate

\* seeded fault: ORDER BY date, employeeName
BeforeAscending(a, b) ==
  \/ a.date < b.date
  \/ a.date = b.date /\ a.employeeName < b.employeeName

\* ORDER BY date DESC, employeeName: a goes before b
Before(a, b) ==
  \/ a.date > b.date
  \/ a.date = b.date /\ a.employeeName < b.employeeName

\* the sorter: place row x into the ordered sequence s, after its equals
RECURSIVE SortInsert(_, _)
SortInsert(x, s) ==
  IF s = <<>> THEN <<x>>
  ELSE IF Before(x, Head(s)) THEN <<x>> \o s
  ELSE <<Head(s)>> \o SortInsert(x, Tail(s))

\* SELECT * FROM attendance WHERE date BETWEEN ? AND ?
\*   ORDER BY date DESC, employeeName     (over the first n rows of t)
RECURSIVE SqlRangeUpTo(_, _, _, _)
SqlRangeUpTo(t, n, startDate, endDate) ==
  IF n = 0 THEN <<>>
  ELSE LET rest == SqlRangeUpTo(t, n - 1, startDate, endDate)
       IN IF Between(t[n].date, startDate, endDate)
          THEN SortInsert(t[n], rest)
          ELSE rest

SqlRange(t, startDate, endDate) == SqlRangeUpTo(t, Len(t), startDate, endDate)

\* ------------------------------------- GET /admin, GET /download-report
NoFile == [exists |-> FALSE, complete |-> FALSE, rows |-> <<>>]

IdleRep == [pc |-> "idle", route |-> "none", startDate |-> NULL,
            endDate |-> NULL, rows |-> <<>>, res |-> NoRes, body |-> <<>>,
            sends |-> 0]

\* GET /admin: a missing bound defaults to today; issue db.all
Admin(p) ==
  /\ rep[p].pc \in {"idle", "done"}
  /\ reports < MaxReports
  /\ \E s \in QueryDates, e \in QueryDates :
       LET today == FormatDate(now)
           missing == ~Truthy(s) \/ ~Truthy(e)
       IN rep' = [rep EXCEPT ![p] =
                    [IdleRep EXCEPT
                       !.pc = "all", !.route = "admin",
                       !.startDate = IF missing /\ ~Truthy(s) THEN today ELSE s,
                       !.endDate = IF missing /\ ~Truthy(e) THEN today ELSE e]]
  /\ reports' = reports + 1
  /\ UNCHANGED <<now, table, req, calls, file>>

\* GET /download-report: the bounds as given; issue db.all
DownloadWith(p, limit, dates) ==
  /\ rep[p].pc \in {"idle", "done"}
  /\ reports < limit
  /\ \E s \in dates, e \in dates :
       rep' = [rep EXCEPT ![p] =
                 [IdleRep EXCEPT !.pc = "all", !.route = "download",
                                 !.startDate = s, !.endDate = e]]
  /\ reports' = reports + 1
  /\ UNCHANGED <<now, table, req, calls, file>>

\* any bounds, also missing ones
Download(p) == DownloadWith(p, MaxReports, QueryDates)

\* the bounds as the admin page's date pickers send them
DownloadDates(p) == DownloadWith(p, MaxOverlap, Days)

\* db.all fails: 500 on either route
AllErr(p) ==
  /\ rep[p].pc = "all"
  /\ rep' = [rep EXCEPT ![p].pc = "done",
                        ![p].res = Error500("An error occurred while fetching attendance records."),
                        ![p].sends = @ + 1]
  /\ UNCHANGED <<now, table, req, calls, reports, file>>

\* db.all succeeds on /admin: render the rows
AdminAllOk(p) ==
  /\ rep[p].pc = "all" /\ rep[p].route = "admin"
  /\ LET rows == SqlRange(table, rep[p].startDate, rep[p].endDate)
     IN rep' = [rep EXCEPT ![p].pc = "done", ![p].rows = rows,
                           ![p].res = [status |-> 200, view |-> "admin",
                                       message |-> "none"],
                           ![p].body = rows,
                           ![p].sends = @ + 1]
  /\ UNCHANGED <<now, table, req, calls, reports, file>>

\* seeded fault: the test for an empty result never succeeds
NoRecordsNever(rows) == Len(rows) < 0

\* rows.length === 0
NoRecords(rows) == Len(rows) = 0

\* db.all succeeds on /download-report: 404 on no rows, else start the
\* CSV writer on the fixed path
DownloadAllOk(p) ==
  /\ rep[p].pc = "all" /\ rep[p].route = "download"
  /\ LET rows == SqlRange(table, rep[p].startDate, rep[p].endDate)
     IN rep' = [rep EXCEPT
                  ![p].rows = rows,
                  ![p].pc = IF NoRecords(rows) THEN "done" ELSE "write",
                  ![p].res = IF NoRecords(rows)
                             THEN [status |-> 404, view |-> "text",
                                   message |-> "No records found for the selected date range."]
                             ELSE NoRes,
                  ![p].sends = IF NoRecords(rows) THEN @ + 1 ELSE @]
  /\ UNCHANGED <<now, table, req, calls, reports, file>>

\* csvWriter.writeRecords(rows) resolves: the file holds the rows; res.download starts
WriteOk(p) ==
  /\ rep[p].pc = "write"
  /\ file' = [exists |-> TRUE, complete |-> TRUE, rows |-> rep[p].rows]
  /\ rep' = [rep EXCEPT ![p].pc = "download"]
  /\ UNCHANGED <<now, table, req, calls, reports>>

\* csvWriter.writeRecords(rows) rejects: the catch block answers 500; the
\* file is untouched (open failed) or left truncated (write failed)
WriteErr(p) ==
  /\ rep[p].pc = "write"
  /\ \E opened \in BOOLEAN :
       file' = IF opened THEN [exists |-> TRUE, complete |-> FALSE, rows |-> <<>>]
               ELSE file
  /\ rep' = [rep EXCEPT ![p].pc = "done",
                        ![p].res = Error500("An error occurred while generating the report."),
                        ![p].sends = @ + 1]
  /\ UNCHANGED <<now, table, req, calls, reports>>

\* res.download completes: the file's content went out; fs.unlink is issued
DownloadOk(p) ==
  /\ rep[p].pc = "download"
  /\ file.exists
  /\ rep' = [rep EXCEPT ![p].pc = "unlink",
                        ![p].res = [status |-> 200, view |-> "download",
                                    message |-> "attendance_report.csv"],
                        ![p].body = file.rows,
                        ![p].sends = @ + 1]
  /\ UNCHANGED <<now, table, req, calls, reports, file>>

\* res.download fails before anything went out (file gone, cannot be
\* opened): the callback answers 500, no unlink
DownloadErr(p) ==
  /\ rep[p].pc = "download"
  /\ rep' = [rep EXCEPT ![p].pc = "done",
                        ![p].res = Error500("An error occurred while downloading the report."),
                        ![p].sends = @ + 1]
  /\ UNCHANGED <<now, table, req, calls, reports, file>>

\* res.download fails after the transfer began (client gone, read error):
\* the 200 response is already under way when the callback calls
\* res.status(500).send, a second response on the same request; no unlink
DownloadAbort(p) ==
  /\ rep[p].pc = "download"
  /\ file.exists
  /\ rep' = [rep EXCEPT ![p].pc = "done",
                        ![p].res = [status |-> 200, view |-> "aborted",
                                    message |-> "attendance_report.csv"],
                        ![p].sends = @ + 2]
  /\ UNCHANGED <<now, table, req, calls, reports, file>>

\* fs.unlink succeeds: the file is gone
UnlinkOk(p) ==
  /\ rep[p].pc = "unlink"
  /\ file.exists
  /\ file' = NoFile
  /\ rep' = [rep EXCEPT ![p].pc = "done"]
  /\ UNCHANGED <<now, table, req, calls, reports>>

\* fs.unlink fails: logged, nothing else
UnlinkErr(p) ==
  /\ rep[p].pc = "unlink"
  /\ rep' = [rep EXCEPT ![p].pc = "done"]
  /\ UNCHANGED <<now, table, req, calls, reports, file>>

Init ==
  /\ now = 0
  /\ table = <<>>
  /\ req = [r \in Reqs |-> IdleReq]
  /\ calls = 0
  /\ rep = [p \in Reports |-> IdleRep]
  /\ reports = 0
  /\ file = NoFile

NextAttendance ==
  \/ Tick
  \/ \E r \in Reqs : Post(r)
  \/ \E r \in Reqs : GetErr(r)
  \/ \E r \in Reqs : GetOk(r)
  \/ \E r \in Reqs : InsertErr(r)
  \/ \E r \in Reqs : InsertOk(r)
  \/ \E r \in Reqs : UpdateErr(r)
  \/ \E r \in Reqs : UpdateOk(r)

NextReport ==
  \/ \E p \in Reports : Admin(p)
  \/ \E p \in Reports : Download(p)
  \/ \E p \in Reports : AllErr(p)
  \/ \E p \in Reports : AdminAllOk(p)
  \/ \E p \in Reports : DownloadAllOk(p)
  \/ \E p \in Reports : WriteOk(p)
  \/ \E p \in Reports : WriteErr(p)
  \/ \E p \in Reports : DownloadOk(p)
  \/ \E p \in Reports : DownloadErr(p)
  \/ \E p \in Reports : DownloadAbort(p)
  \/ \E p \in Reports : UnlinkOk(p)
  \/ \E p \in Reports : UnlinkErr(p)

\* form submissions handled one at a time, which fill the table the
\* report requests read
NextForm ==
  \/ Tick
  \/ PostForm(1)
  \/ GetErr(1) \/ GetOk(1)
  \/ InsertErr(1) \/ InsertOk(1)
  \/ UpdateErr(1) \/ UpdateOk(1)

\* form submissions, two in flight
NextFormConcurrent ==
  \/ Tick
  \/ \E r \in Reqs : PostForm(r)
  \/ \E r \in Reqs : GetErr(r)
  \/ \E r \in Reqs : GetOk(r)
  \/ \E r \in Reqs : InsertErr(r)
  \/ \E r \in Reqs : InsertOk(r)
  \/ \E r \in Reqs : UpdateErr(r)
  \/ \E r \in Reqs : UpdateOk(r)

SpecForm == Init /\ [][NextFormConcurrent]_vars

\* requests with one of the two actions, each finished before the next begins
NextSequential ==
  \/ Tick
  \/ PostValid(1)
  \/ GetErr(1) \/ GetOk(1)
  \/ InsertErr(1) \/ InsertOk(1)
  \/ UpdateErr(1) \/ UpdateOk(1)

SpecSequential == Init /\ [][NextSequential]_vars

\* attendance requests with any body, two in flight
Spec == Init /\ [][NextAttendance]_vars

\* report requests over a table filled by form submissions
SpecReport == Init /\ [][NextForm \/ NextReport]_vars

\* the server after two form submissions were handled one after the other, at
\* instants n1 <= n2, with no request in flight
InitOverlap ==
  /\ \E n1 \in 0..MaxNow, n2 \in 0..MaxNow, name1 \in Names, name2 \in Names,
        a1 \in ValidActions, a2 \in ValidActions :
       /\ n1 <= n2
       /\ now = n2
       /\ table = SoloRun(SoloRun(<<>>, name1, FormatDate(n1), a1, FormatTime(n1)),
                          name2, FormatDate(n2), a2, FormatTime(n2))
  /\ req = [r \in Reqs |-> IdleReq]
  /\ calls = 2
  /\ rep = [p \in Reports |-> IdleRep]
  /\ reports = 0
  /\ file = NoFile

\* downloads, two in flight
NextOverlap ==
  \/ \E p \in Reports : DownloadDates(p)
  \/ \E p \in Reports : AllErr(p)
  \/ \E p \in Reports : DownloadAllOk(p)
  \/ \E p \in Reports : WriteOk(p)
  \/ \E p \in Reports : WriteErr(p)
  \/ \E p \in Reports : DownloadOk(p)
  \/ \E p \in Reports : DownloadErr(p)
  \/ \E p \in Reports : DownloadAbort(p)
  \/ \E p \in Reports : UnlinkOk(p)
  \/ \E p \in Reports : UnlinkErr(p)

SpecOverlap == InitOverlap /\ [][NextOverlap]_vars

\* ================================================================ claims

\* the column the complementary action writes
OtherField(action) == IF action = "checkIn" THEN "checkOut" ELSE "checkIn"

\* a request whose step just answered without a storage failure
Answered(r) == req[r].pc # "done" /\ req'[r].pc = "done" /\ req'[r].res.status # 500

\* C1: in every reachable state, also under interleaved lookups and writes of
\* concurrent requests, the table holds at most one row per
\* (employeeName, date) pair.
C1_UniquePerEmployeeDate ==
  \A i, j \in 1..Len(table) :
    (table[i].employeeName = table[j].employeeName /\ table[i].date = table[j].date)
      => i = j

\* C2: once a row's checkIn (resp. checkOut) is non-null, no later step of any
\* request changes it.
C2_SetOnce ==
  [][\A i \in 1..Len(table) :
       /\ table[i].checkIn # NULL => table'[i].checkIn = table[i].checkIn
       /\ table[i].checkOut # NULL => table'[i].checkOut = table[i].checkOut]_vars

\* C3: a request with action checkIn or checkOut whose lookup found no row
\* goes on to the insert without answering; its insert, when the store
\* accepts it, appends exactly one row, with the request's name and date, the
\* action's column equal to the request's time and the other column null, and
\* answers with the success page (Created).
C3_InsertCreates ==
  [][\A r \in Reqs :
       /\ (req[r].pc = "get" /\ req'[r].pc # "get"
           /\ req'[r].res.status # 500 /\ req[r].action \in ValidActions
           /\ Matching(table, req[r].employeeName, req[r].date) = {})
            => (req'[r].pc = "insert" /\ req'[r].res = NoRes /\ table' = table)
       /\ (req[r].pc = "insert" /\ Answered(r) /\ req[r].action \in ValidActions)
            => /\ Len(table') = Len(table) + 1
               /\ SubSeq(table', 1, Len(table)) = table
               /\ LET new == table'[Len(table')]
                  IN /\ new.employeeName = req[r].employeeName
                     /\ new.date = req[r].date
                     /\ new[req[r].action] = req[r].time
                     /\ new[OtherField(req[r].action)] = NULL
               /\ req'[r].res = Success]_vars

\* C3 witness: a checkOut on a day without a row has created the row
\* with checkOut set and checkIn null.
C3_Witness ==
  \E r \in Reqs :
    /\ req[r].pc = "done" /\ req[r].res = Success /\ req[r].row = NoRow
    /\ req[r].action = "checkOut"
    /\ \E i \in 1..Len(table) :
         /\ table[i].employeeName = req[r].employeeName
         /\ table[i].date = req[r].date
         /\ table[i].checkOut = req[r].time /\ table[i].checkIn = NULL

\* C4: when the lookup returned a row with exactly one of checkIn/checkOut
\* set and the request carries the complementary action, the update, when the
\* store accepts it, answers with the success page (Updated), leaves the row
\* with both fields set and does not change the field that was set; in both
\* orders, with no comparison of the two times.
C4_ComplementaryUpdates ==
  [][\A r \in Reqs :
       LET row == req[r].row
           a == req[r].action
           o == OtherField(a)
       IN /\ (req[r].pc = "get" /\ req'[r].pc # "get" /\ req'[r].res.status # 500
              /\ a \in ValidActions
              /\ Matching(table, req[r].employeeName, req[r].date) # {}
              /\ LET m == SqlGet(table, req[r].employeeName, req[r].date)
                 IN m[a] = NULL /\ m[o] # NULL)
               => (req'[r].pc = "update" /\ req'[r].res = NoRes /\ table' = table)
          /\ (req[r].pc = "update" /\ Answered(r) /\ a \in ValidActions
              /\ row[a] = NULL /\ row[o] # NULL)
               => /\ req'[r].res = Success
                  /\ Len(table') = Len(table)
                  /\ table'[row.id][a] = req[r].time
                  /\ table'[row.id][o] = table[row.id][o]
                  /\ table'[row.id][o] # NULL]_vars

\* C4 witness: a checkIn has completed a row that held only a checkOut.
C4_Witness ==
  \E r \in Reqs :
    /\ req[r].pc = "done" /\ req[r].res = Success /\ req[r].action = "checkIn"
    /\ req[r].row # NoRow /\ req[r].row.checkIn = NULL /\ req[r].row.checkOut # NULL
    /\ table[req[r].row.id].checkIn = req[r].time
    /\ table[req[r].row.id].checkOut = req[r].row.checkOut

\* C5: after a lookup that returned a row: if the row has both fields set the
\* request is answered with the combined message, whatever its action;
\* otherwise, if the action's own field is set, with that action's message.
C5_RejectionTieBreak ==
  \A r \in Reqs :
    (req[r].pc \notin {"idle", "get"} /\ req[r].row # NoRow) =>
      LET row == req[r].row
      IN IF row.checkIn # NULL /\ row.checkOut # NULL
         THEN req[r].pc = "done" /\ req[r].res =
                Already("You have already checked in and out for today.")
         ELSE /\ (req[r].action = "checkIn" /\ row.checkIn # NULL)
                   => (req[r].pc = "done" /\ req[r].res =
                         Already("You have already checked in for today."))
              /\ (req[r].action = "checkOut" /\ row.checkOut # NULL)
                   => (req[r].pc = "done" /\ req[r].res =
                         Already("You have already checked out for today."))

\* C5 witness: a checkIn against a complete row got the combined message.
C5_Witness ==
  \E r \in Reqs :
    /\ req[r].pc = "done" /\ req[r].action = "checkIn"
    /\ req[r].row # NoRow /\ req[r].row.checkIn # NULL /\ req[r].row.checkOut # NULL
    /\ req[r].res = Already("You have already checked in and out for today.")

\* C7: a request with a missing or empty employeeName, or with an action
\* outside {checkIn, checkOut}, never has a store operation issued for it.
C7_ValidatedBeforeStore ==
  \A r \in Reqs :
    (req[r].pc # "idle"
     /\ (~Truthy(req[r].employeeName) \/ req[r].action \notin ValidActions))
      => req[r].pc \notin {"get", "insert", "update"}

\* C10: a request is answered 500 only by a step that leaves the table as it
\* was and ends the request; every ended request has an answer; and a request
\* whose insert or update statement the store cannot accept (null name,
\* unknown column, text for the key) ends with 500, which is neither the
\* success page nor the already page.
C10_StorageFailure ==
  /\ [][\A r \in Reqs :
          (req'[r].res.status = 500 /\ req[r].res.status # 500)
            => (table' = table /\ req'[r].pc = "done" /\ req[r].pc # "done")]_vars
  /\ [](\A r \in Reqs :
          req[r].pc = "done" =>
            /\ req[r].res # NoRes
            /\ req[r].res.status = 500 => req[r].res.view \notin {"success", "already"}
            /\ (req[r].row = NoRow
                /\ (req[r].employeeName = NULL
                    \/ req[r].action \notin {"employeeName", "date", "checkIn", "checkOut"}))
                 => req[r].res.status = 500
            /\ (req[r].row # NoRow /\ req[r].res.view # "already"
                /\ req[r].action \notin {"employeeName", "date", "checkIn", "checkOut"})
                 => req[r].res.status = 500)

\* C10 witness: an insert with a null employeeName was refused and answered
\* 500 while the table holds rows of other requests.
C10_Witness ==
  \E r \in Reqs :
    /\ req[r].pc = "done" /\ req[r].employeeName = NULL
    /\ req[r].res = Error500("An error occurred while saving attendance.")
    /\ Len(table) > 0

\* the rows of the table a range query with these bounds is to return
InRange(startDate, endDate) ==
  IF startDate = NULL \/ endDate = NULL THEN {}
  ELSE {i \in 1..Len(table) : startDate <= table[i].date /\ table[i].date <= endDate}

\* a report request whose db.all callback just ran without a storage failure
Queried(p) == rep[p].pc = "all" /\ rep'[p].pc # "all" /\ rep'[p].res.status # 500

\* C6: once no report request is in flight, the temporary CSV file does not
\* exist, whichever way each request ended.
C6_ArtifactRemoved ==
  (\A p \in Reports : rep[p].pc \in {"idle", "done"}) => ~file.exists

\* C8: the range query of /admin and of /download-report returns exactly the
\* rows whose date lies between the two bounds, both included, each once,
\* ordered by date descending and by employeeName ascending within a date;
\* with no such row it returns the empty sequence and /admin renders it.
C8_QueryRange ==
  [][\A p \in Reports :
       Queried(p) =>
         LET want == InRange(rep[p].startDate, rep[p].endDate)
             rows == rep'[p].rows
         IN /\ Len(rows) = Cardinality(want)
            /\ {rows[k] : k \in 1..Len(rows)} = {table[i] : i \in want}
            /\ \A k \in 1..(Len(rows) - 1) :
                 \/ rows[k].date > rows[k + 1].date
                 \/ /\ rows[k].date = rows[k + 1].date
                    /\ rows[k].employeeName <= rows[k + 1].employeeName
            /\ want = {} => rows = <<>>
            /\ rep[p].route = "admin"
                 => (rep'[p].res.status = 200 /\ rep'[p].body = rows)]_vars

\* C8 witness: a query whose bounds are the dates of its last and first rows
\* returned a later day's row before two rows of an earlier day, those two
\* ordered by name against their order of insertion.
C8_Witness ==
  \E p \in Reports :
    LET rows == rep[p].rows
    IN /\ Len(rows) >= 3
       /\ rows[1].date > rows[2].date
       /\ rows[2].date = rows[3].date
       /\ rows[2].employeeName < rows[3].employeeName
       /\ rows[2].id > rows[3].id
       /\ rep[p].startDate = rows[3].date
       /\ rep[p].endDate = rows[1].date

\* C9: /download-report answers 404 (NotFound) exactly when its range query
\* matched no row, and then it ends without touching the CSV file; when rows
\* matched it goes on to write them and ends with the download or a 500,
\* never with 404.
C9_NotFoundIffEmpty ==
  /\ [][\A p \in Reports :
          (Queried(p) /\ rep[p].route = "download") =>
            LET want == InRange(rep[p].startDate, rep[p].endDate)
            IN /\ (want = {}) <=> (rep'[p].res.status = 404)
               /\ want = {} => (rep'[p].pc = "done" /\ file' = file)
               /\ want # {} => (rep'[p].pc = "write" /\ rep'[p].res = NoRes)]_vars
  /\ [](\A p \in Reports :
          rep[p].route = "download" =>
            /\ rep[p].res.status = 404 => (rep[p].rows = <<>> /\ rep[p].pc = "done")
            /\ rep[p].rows # <<>> => rep[p].res.status \in {0, 200, 500}
            /\ (rep[p].pc = "done" /\ rep[p].rows # <<>>)
                 => rep[p].res.status \in {200, 500})

\* C9 witness: a download over a day without rows, while the table holds rows
\* of another day, was answered 404 and there is no CSV file.
C9_Witness ==
  \E p \in Reports :
    /\ rep[p].route = "download" /\ rep[p].pc = "done"
    /\ rep[p].res.status = 404
    /\ rep[p].startDate # NULL /\ rep[p].startDate = rep[p].endDate
    /\ Len(table) > 0
    /\ ~file.exists

\* C11: when requests with action checkIn or checkOut are handled one at a
\* time, every (employeeName, date) pair has at most one row in every
\* reachable state.
C11_UniqueWhenSequential ==
  \A name \in BodyNames, date \in Days :
    Cardinality({i \in 1..Len(table) :
                   table[i].employeeName = name /\ table[i].date = date}) <= 1

\* C11 witness: three requests for one pair have run one after the other
\* (create, complete, reject) and the pair has its one row, beside the row of
\* no other pair.
C11_Witness ==
  /\ calls = MaxCalls
  /\ req[1].pc = "done" /\ req[1].res.view = "already"
  /\ Len(table) = 1
  /\ table[1].employeeName = req[1].employeeName /\ table[1].date = req[1].date
  /\ table[1].checkIn # NULL /\ table[1].checkOut # NULL

\* C12: a request answered with the already page (Rejected) consists of the
\* handler body and the lookup callback only, and neither step changes the
\* table: no row is added and no field of any row changes.
C12_RejectedIsNoOp ==
  [][\A r \in Reqs :
       /\ (req[r].pc # "get" /\ req'[r].pc = "get") => table' = table
       /\ (req'[r].res.view = "already" /\ req[r].res.view # "already")
            => (req[r].pc = "get" /\ req'[r].pc = "done" /\ table' = table)
       /\ (req[r].res.view = "already" /\ req'[r].res.view = "already")
            => req'[r] = req[r]]_vars

\* C12 witness: a second checkOut on a row that holds only a checkOut was
\* rejected, and the row still holds the first time and no checkIn.
C12_Witness ==
  \E r \in Reqs :
    /\ req[r].pc = "done" /\ req[r].action = "checkOut"
    /\ req[r].res = Already("You have already checked out for today.")
    /\ req[r].time # req[r].row.checkOut
    /\ table[req[r].row.id] = req[r].row
    /\ req[r].row.checkIn = NULL

\* C13: an accepted update changes exactly one of checkIn/checkOut of the row
\* whose id the lookup read, to the request's time; that row's id,
\* employeeName, date and other time field, and every other row, stay as they
\* were, whatever action the request carries.
C13_UpdateOneTimeField ==
  [][\A r \in Reqs :
       (req[r].pc = "update" /\ req'[r].pc = "done" /\ req'[r].res.status # 500)
         => \E f \in ValidActions :
              table' = [table EXCEPT ![req[r].row.id][f] = req[r].time]]_vars

\* a request between its handler body and its answer
InFlight(r) == req[r].pc \in {"get", "insert", "update"}

SameKey(r, q) ==
  req[r].employeeName = req[q].employeeName /\ req[r].date = req[q].date

\* C14: requests on different (employeeName, date) pairs do not block or
\* affect each other. (1) A request in flight can always take its next step.
\* (2) A step of one request adds or changes only rows of that request's own
\* pair, so for every other request in flight on a different pair the lookup
\* result and the row it read stay what they were. (3) Hence a request whose
\* lookup result is still current ends its write with the table the same
\* request leaves when run alone from that table, and is answered alike.
C14_DistinctKeysIndependent ==
  /\ [](\A r \in Reqs :
          /\ req[r].pc = "get" => ENABLED GetOk(r)
          /\ req[r].pc = "insert" => ENABLED InsertOk(r)
          /\ req[r].pc = "update" => ENABLED UpdateOk(r))
  /\ [][\A q \in Reqs :
          req'[q] # req[q] =>
            /\ Len(table') >= Len(table)
            /\ \A i \in 1..Len(table') :
                 (i > Len(table) \/ table'[i] # table[i])
                   => /\ table'[i].employeeName = req[q].employeeName
                      /\ table'[i].date = req[q].date
                      /\ i <= Len(table) =>
                           /\ table[i].employeeName = req[q].employeeName
                           /\ table[i].date = req[q].date
            /\ \A r \in Reqs \ {q} :
                 (InFlight(r) /\ ~SameKey(r, q)) =>
                   /\ req'[r] = req[r]
                   /\ SqlGet(table', req[r].employeeName, req[r].date)
                        = SqlGet(table, req[r].employeeName, req[r].date)
                   /\ req[r].row # NoRow => table'[req[r].row.id] = table[req[r].row.id]
            /\ (req[q].pc \in {"insert", "update"} /\ req'[q].res = Success
                /\ req[q].row = SqlGet(table, req[q].employeeName, req[q].date))
                 => table' = SoloRun(table, req[q].employeeName, req[q].date,
                                     req[q].action, req[q].time)]_vars

\* C14 witness: two requests on different pairs of the same day have both done
\* their lookups and neither has written yet: one is about to insert, the
\* other about to update a row of the table.
C14_Witness ==
  /\ req[1].pc = "insert" /\ req[2].pc = "update"
  /\ req[1].date = req[2].date
  /\ req[1].employeeName # req[2].employeeName
  /\ table[req[2].row.id] = req[2].row

\* C15: when download requests overlap, each one sends out exactly the rows
\* of its own range query, and while a request's file is written and not yet
\* sent, no other request's step rewrites or removes the file.
C15_OwnArtifact ==
  /\ [](\A p \in Reports :
          rep[p].res.view = "download" => rep[p].body = rep[p].rows)
  /\ [][\A p \in Reports, q \in Reports :
          (p # q /\ rep[p].pc = "download" /\ rep'[q] # rep[q]) => file' = file]_vars

\* C16: the date and the time of day a request uses (and stores) are the date
\* and the time of day of one and the same instant of the clock.
C16_SameInstant ==
  [][\A r \in Reqs :
       (req[r].pc # "get" /\ req'[r].pc = "get")
         => \E n \in now..now' :
              /\ req'[r].date = FormatDate(n)
              /\ req'[r].time = FormatTime(n)]_vars

\* C17: every request is answered exactly once: a finished /attendance
\* request has its one response, and a report request has sent no response
\* while it is in progress, one when it has finished, and never two.
C17_ExactlyOneResponse ==
  /\ \A r \in Reqs : req[r].pc = "done" <=> req[r].res # NoRes
  /\ \A p \in Reports :
       /\ rep[p].sends <= 1
       /\ rep[p].pc \in {"done", "unlink"} <=> rep[p].sends = 1

====
